---- MODULE Spec2Model ----
(***************************************************************************)
(* Verification model of the daisy-chain protocol decoder                  *)
(* (src/analyzer.py, class analyzer, and the variant of                    *)
(* src/HighLevelAnalyzer.py, class Hla).                                   *)
(*                                                                         *)
(* The decoder object is the record `self`; its fields carry the names of  *)
(* the Python attributes.  A Python string is a sequence of string pieces  *)
(* (literal pieces stay whole, every formatted hex digit is one piece), so *)
(* that `+` on strings is \o.  Time is counted in integer ticks.           *)
(***************************************************************************)
EXTENDS Integers, Sequences, FiniteSets, TLC

(***************************************************************************)
(* Bounds of the explored inputs.                                          *)
(***************************************************************************)
\* largest payload length a fed header byte may declare
MaxPayload == 2
\* last tick of the capture
MaxTime == 2
\* furthest an event may end after the previous one, in ticks
MaxAdvance == 1
\* largest configured frame timeout, in ticks
MaxTimeout == 1
\* largest number of bytes in one data event
MaxChunk == 2

(***************************************************************************)
(* Bit operations of Python on non-negative integers.                      *)
(***************************************************************************)
RECURSIVE BitAnd(_, _)
BitAnd(a, b) ==
    IF a = 0 \/ b = 0 THEN 0
    ELSE ((a % 2) * (b % 2)) + 2 * BitAnd(a \div 2, b \div 2)

RECURSIVE BitOr(_, _)
BitOr(a, b) ==
    IF a = 0 THEN b
    ELSE IF b = 0 THEN a
    ELSE (IF (a % 2) + (b % 2) > 0 THEN 1 ELSE 0) + 2 * BitOr(a \div 2, b \div 2)

ShiftLeft8(a) == a * 256

(***************************************************************************)
(* Module constants of analyzer.py.                                        *)
(***************************************************************************)
FRAME_TYPE_MASK == 128
REQ_TYPE_MASK == 112
REQ_DATA_SIZE_MASK == 7
RES_DATA_SIZE_MASK == 127

COMMAND_FRAME == 128
RESPONSE_FRAME == 0

SINGLE_DEVICE_READ == 0
SINGLE_DEVICE_WRITE == 16
STACK_READ == 32
STACK_WRITE == 48
BROADCAST_READ == 64
BROADCAST_WRITE == 80
BROADCAST_WRITE_REVERSE == 96

FRAME_TYPE_MAP ==
    (COMMAND_FRAME :> "Command") @@ (RESPONSE_FRAME :> "Response")

COMMAND_TYPE_MAP ==
    (SINGLE_DEVICE_READ :> "Single Device Read") @@
    (SINGLE_DEVICE_WRITE :> "Single Device Write") @@
    (STACK_READ :> "Stack Read") @@
    (STACK_WRITE :> "Stack Write") @@
    (BROADCAST_READ :> "Broadcast Read") @@
    (BROADCAST_WRITE :> "Broadcast Write") @@
    (BROADCAST_WRITE_REVERSE :> "Broadcast Write Reverse")

\* class TransferState(Enum)
WAIT_INIT == 0
WAIT_DEV_ADDR == 1
WAIT_REG_ADDR_1 == 2
WAIT_REG_ADDR_2 == 3
WAIT_DATA == 4
WAIT_CRC_1 == 5
WAIT_CRC_2 == 6

\* Python's None where it is stored in an integer-valued attribute
None == -1

(***************************************************************************)
(* String formatting.                                                      *)
(***************************************************************************)
HexDigits ==
    <<"0", "1", "2", "3", "4", "5", "6", "7",
      "8", "9", "A", "B", "C", "D", "E", "F">>

\* all hex digits of n, most significant first ('{:X}')
RECURSIVE FmtX(_)
FmtX(n) ==
    IF n < 16 THEN <<HexDigits[n + 1]>>
    ELSE FmtX(n \div 16) \o <<HexDigits[(n % 16) + 1]>>

\* left padding with "0" up to a minimum width ('{:0wX}')
RECURSIVE ZeroPad(_, _)
ZeroPad(s, w) == IF Len(s) >= w THEN s ELSE ZeroPad(<<"0">> \o s, w)

\* '{:02X}'.format(n) and '{:04X}'.format(n)
Fmt02X(n) == ZeroPad(FmtX(n), 2)
Fmt04X(n) == ZeroPad(FmtX(n), 4)

(***************************************************************************)
(* The decoder object.                                                     *)
(***************************************************************************)
\* analyzer.__init__: only currentState exists after construction
Constructed == [currentState |-> WAIT_INIT]

\* initPacket that leaves a device address of an earlier packet in place
initPacket_keepDevice(s) ==
    [currentState |-> s.currentState,
     lastPacketType |-> 0,
     lastPacketTime |-> None,
     lastPacketChecksum |-> 0,
     lastPacketData |-> <<>>,
     lastPacketDataSize |-> 0,
     lastPacketCommandType |-> 0,
     lastPacketDeviceAddress |->
         IF "lastPacketDeviceAddress" \in DOMAIN s
         THEN s.lastPacketDeviceAddress ELSE 0,
     lastPacketRegisterAddress |-> 0]

\* analyzer.initPacket: creates or resets the packet attributes
initPacket(s) ==
    [currentState |-> s.currentState,
     lastPacketType |-> 0,
     lastPacketTime |-> None,
     lastPacketChecksum |-> 0,
     lastPacketData |-> <<>>,
     lastPacketDataSize |-> 0,
     lastPacketCommandType |-> 0,
     lastPacketDeviceAddress |-> 0,
     lastPacketRegisterAddress |-> 0]

\* What a call hands back: the returned frames (<<>> is None) and the
\* exception that left the call, if any.
Returned(s, res) == [self |-> s, result |-> res, raised |-> "none"]
Raised(s, e) == [self |-> s, result |-> <<>>, raised |-> e]

\* AnalyzerFrame(type, start_time, end_time, data)
AnalyzerFrame(type, start, end, data) ==
    [type |-> type, start_time |-> start, end_time |-> end, data |-> data]

\* The lookups formatResult performs; a missing key raises KeyError.
FormatRaises(s) ==
    \/ s.lastPacketType \notin DOMAIN FRAME_TYPE_MAP
    \/ /\ s.lastPacketType = COMMAND_FRAME
       /\ s.lastPacketCommandType \notin DOMAIN COMMAND_TYPE_MAP

\* formatResult with the register address rendered in two digits
formatResult_shortRegister(s, frame) ==
    LET m1 == <<FRAME_TYPE_MAP[s.lastPacketType], " - ">>
        m2 == IF s.lastPacketType = COMMAND_FRAME
              THEN m1 \o <<COMMAND_TYPE_MAP[s.lastPacketCommandType], " ">>
              ELSE m1
        m3 == IF \/ /\ s.lastPacketType = COMMAND_FRAME
                     /\ \/ s.lastPacketCommandType = SINGLE_DEVICE_WRITE
                        \/ s.lastPacketCommandType = SINGLE_DEVICE_READ
                 \/ s.lastPacketType = RESPONSE_FRAME
              THEN m2 \o <<"Device: 0x">> \o Fmt04X(s.lastPacketDeviceAddress)
                      \o <<" ">>
              ELSE m2
        m4 == m3 \o <<"Register: 0x">> \o Fmt02X(s.lastPacketRegisterAddress)
                 \o <<" Data: ">> \o s.lastPacketData
    IN AnalyzerFrame("frame", s.lastPacketTime, frame.end_time,
                     [message |-> m4])

\* analyzer.formatResult, on the path where no lookup raises
formatResult(s, frame) ==
    LET m1 == <<FRAME_TYPE_MAP[s.lastPacketType], " - ">>
        m2 == IF s.lastPacketType = COMMAND_FRAME
              THEN m1 \o <<COMMAND_TYPE_MAP[s.lastPacketCommandType], " ">>
              ELSE m1
        m3 == IF \/ /\ s.lastPacketType = COMMAND_FRAME
                     /\ \/ s.lastPacketCommandType = SINGLE_DEVICE_WRITE
                        \/ s.lastPacketCommandType = SINGLE_DEVICE_READ
                 \/ s.lastPacketType = RESPONSE_FRAME
              THEN m2 \o <<"Device: 0x">> \o Fmt04X(s.lastPacketDeviceAddress)
                      \o <<" ">>
              ELSE m2
        m4 == m3 \o <<"Register: 0x">> \o Fmt04X(s.lastPacketRegisterAddress)
                 \o <<" Data: ">> \o s.lastPacketData
    IN AnalyzerFrame("frame", s.lastPacketTime, frame.end_time,
                     [message |-> m4])

\* onHeader with the device address expected after every command header
onHeader_deviceAlways(s, byte, frame) ==
    LET p == [initPacket(s) EXCEPT !.lastPacketTime = frame.start_time]
    IN IF BitAnd(byte, FRAME_TYPE_MASK) = COMMAND_FRAME
       THEN [p EXCEPT
               !.lastPacketType = COMMAND_FRAME,
               !.lastPacketDataSize = BitAnd(byte, REQ_DATA_SIZE_MASK) + 1,
               !.currentState = WAIT_DEV_ADDR,
               !.lastPacketCommandType = BitAnd(byte, REQ_TYPE_MASK)]
       ELSE [p EXCEPT
               !.lastPacketType = RESPONSE_FRAME,
               !.lastPacketDataSize = BitAnd(byte, RES_DATA_SIZE_MASK) + 1,
               !.currentState = WAIT_DEV_ADDR]

\* onHeader with the command size mask applied to response headers
onHeader_responseMask(s, byte, frame) ==
    LET p == [initPacket(s) EXCEPT !.lastPacketTime = frame.start_time]
    IN IF BitAnd(byte, FRAME_TYPE_MASK) = COMMAND_FRAME
       THEN LET command == BitAnd(byte, REQ_TYPE_MASK)
            IN [p EXCEPT
                  !.lastPacketType = COMMAND_FRAME,
                  !.lastPacketDataSize = BitAnd(byte, REQ_DATA_SIZE_MASK) + 1,
                  !.currentState =
                      IF command = SINGLE_DEVICE_READ
                         \/ command = SINGLE_DEVICE_WRITE
                      THEN WAIT_DEV_ADDR
                      ELSE WAIT_REG_ADDR_1,
                  !.lastPacketCommandType = command]
       ELSE [p EXCEPT
               !.lastPacketType = RESPONSE_FRAME,
               !.lastPacketDataSize = BitAnd(byte, REQ_DATA_SIZE_MASK) + 1,
               !.currentState = WAIT_DEV_ADDR]

\* onHeader that records the end of the header's event
onHeader_endTime(s, byte, frame) ==
    LET p == [initPacket(s) EXCEPT !.lastPacketTime = frame.end_time]
    IN IF BitAnd(byte, FRAME_TYPE_MASK) = COMMAND_FRAME
       THEN LET command == BitAnd(byte, REQ_TYPE_MASK)
            IN [p EXCEPT
                  !.lastPacketType = COMMAND_FRAME,
                  !.lastPacketDataSize = BitAnd(byte, REQ_DATA_SIZE_MASK) + 1,
                  !.currentState =
                      IF command = SINGLE_DEVICE_READ
                         \/ command = SINGLE_DEVICE_WRITE
                      THEN WAIT_DEV_ADDR
                      ELSE WAIT_REG_ADDR_1,
                  !.lastPacketCommandType = command]
       ELSE [p EXCEPT
               !.lastPacketType = RESPONSE_FRAME,
               !.lastPacketDataSize = BitAnd(byte, RES_DATA_SIZE_MASK) + 1,
               !.currentState = WAIT_DEV_ADDR]

\* The WAIT_INIT branch of the loop body: header interpretation.
onHeader(s, byte, frame) ==
    LET p == [initPacket(s) EXCEPT !.lastPacketTime = frame.start_time]
    IN IF BitAnd(byte, FRAME_TYPE_MASK) = COMMAND_FRAME
       THEN LET command == BitAnd(byte, REQ_TYPE_MASK)
            IN [p EXCEPT
                  !.lastPacketType = COMMAND_FRAME,
                  !.lastPacketDataSize = BitAnd(byte, REQ_DATA_SIZE_MASK) + 1,
                  !.currentState =
                      IF command = SINGLE_DEVICE_READ
                         \/ command = SINGLE_DEVICE_WRITE
                      THEN WAIT_DEV_ADDR
                      ELSE WAIT_REG_ADDR_1,
                  !.lastPacketCommandType = command]
       ELSE [p EXCEPT
               !.lastPacketType = RESPONSE_FRAME,
               !.lastPacketDataSize = BitAnd(byte, RES_DATA_SIZE_MASK) + 1,
               !.currentState = WAIT_DEV_ADDR]

\* onPayload with the new byte put in front of the stored ones
onPayload_prepend(s, byte) ==
    LET size == s.lastPacketDataSize - 1
    IN [s EXCEPT
          !.lastPacketData = <<"0x">> \o Fmt02X(byte) \o <<" ">> \o @,
          !.lastPacketDataSize = size,
          !.currentState = IF size <= 0 THEN WAIT_CRC_1 ELSE @]

\* onPayload that leaves WAIT_DATA one byte late
onPayload_lateExit(s, byte) ==
    LET size == s.lastPacketDataSize - 1
    IN [s EXCEPT
          !.lastPacketData = @ \o <<"0x">> \o Fmt02X(byte) \o <<" ">>,
          !.lastPacketDataSize = size,
          !.currentState = IF size < 0 THEN WAIT_CRC_1 ELSE @]

\* The WAIT_DATA branch of the loop body.
onPayload(s, byte) ==
    LET size == s.lastPacketDataSize - 1
    IN [s EXCEPT
          !.lastPacketData = @ \o <<"0x">> \o Fmt02X(byte) \o <<" ">>,
          !.lastPacketDataSize = size,
          !.currentState = IF size <= 0 THEN WAIT_CRC_1 ELSE @]

\* `for byte in data:` of analyzer.onReceived, from byte i on, with the
\* local variable result.  Every branch but the last returns None at once.
RECURSIVE loop(_, _, _, _)
loop(s, frame, i, result) ==
    IF i > Len(frame.data) THEN Returned(s, result)
    ELSE
    LET byte == frame.data[i] IN
    CASE s.currentState = WAIT_INIT ->
           Returned(onHeader(s, byte, frame), <<>>)
      [] s.currentState = WAIT_DEV_ADDR ->
           Returned([s EXCEPT !.lastPacketDeviceAddress = byte,
                              !.currentState = WAIT_REG_ADDR_1], <<>>)
      [] s.currentState = WAIT_REG_ADDR_1 ->
           Returned([s EXCEPT !.lastPacketRegisterAddress = ShiftLeft8(byte),
                              !.currentState = WAIT_REG_ADDR_2], <<>>)
      [] s.currentState = WAIT_REG_ADDR_2 ->
           Returned([s EXCEPT !.lastPacketRegisterAddress = BitOr(@, byte),
                              !.currentState = WAIT_DATA], <<>>)
      [] s.currentState = WAIT_DATA ->
           Returned(onPayload(s, byte), <<>>)
      [] s.currentState = WAIT_CRC_1 ->
           Returned([s EXCEPT !.lastPacketChecksum = ShiftLeft8(byte),
                              !.currentState = WAIT_CRC_2], <<>>)
      [] s.currentState = WAIT_CRC_2 ->
           LET t == [s EXCEPT !.lastPacketChecksum = BitOr(@, byte),
                              !.currentState = WAIT_INIT]
           IN IF FormatRaises(t) THEN Raised(t, "KeyError")
              ELSE loop(t, frame, i + 1, <<formatResult(t, frame)>>)

\* the timeout test with <= for <
TimedOut_nonStrict(s, timeout, frame) ==
    /\ s.currentState # WAIT_INIT
    /\ s.lastPacketTime + timeout <= frame.end_time

\* the timeout test on the start of the event
TimedOut_startTime(s, timeout, frame) ==
    /\ s.currentState # WAIT_INIT
    /\ s.lastPacketTime + timeout < frame.start_time

\* The timeout test that precedes the loop.
TimedOut(s, timeout, frame) ==
    /\ s.currentState # WAIT_INIT
    /\ s.lastPacketTime + timeout < frame.end_time

\* onReceived that hands the frame out one byte early, on the first
\* checksum byte
onReceived_emitEarly(s, timeout, frame) ==
    IF ~frame.hasdata THEN Returned(s, <<>>)
    ELSE IF TimedOut(s, timeout, frame)
    THEN Returned([s EXCEPT !.currentState = WAIT_INIT],
                  <<AnalyzerFrame("error_frame", s.lastPacketTime,
                                  frame.end_time,
                                  [error_reason |-> "Transfer Timeout"])>>)
    ELSE LET out == loop(s, frame, 1, <<>>)
         IN IF s.currentState = WAIT_CRC_1 /\ ~FormatRaises(out.self)
            THEN Returned(out.self, <<formatResult(out.self, frame)>>)
            ELSE out

\* onReceived that reports the timeout and leaves currentState as it was
onReceived_keepState(s, timeout, frame) ==
    IF ~frame.hasdata THEN Returned(s, <<>>)
    ELSE IF TimedOut(s, timeout, frame)
    THEN Returned(s,
                  <<AnalyzerFrame("error_frame", s.lastPacketTime,
                                  frame.end_time,
                                  [error_reason |-> "Transfer Timeout"])>>)
    ELSE loop(s, frame, 1, <<>>)

\* analyzer.onReceived
onReceived(s, timeout, frame) ==
    IF ~frame.hasdata THEN Returned(s, <<>>)
    ELSE IF TimedOut(s, timeout, frame)
    THEN Returned([s EXCEPT !.currentState = WAIT_INIT],
                  <<AnalyzerFrame("error_frame", s.lastPacketTime,
                                  frame.end_time,
                                  [error_reason |-> "Transfer Timeout"])>>)
    ELSE loop(s, frame, 1, <<>>)

\* decode without the test for an 'error' entry
decode_errorsFed(s, timeout, frame) ==
    IF frame.type # "data" THEN Returned(s, <<>>)
    ELSE onReceived(s, timeout, frame)

\* analyzer.decode
decode(s, timeout, frame) ==
    IF frame.type # "data" THEN Returned(s, <<>>)
    ELSE IF frame.haserror THEN Returned(s, <<>>)
    ELSE onReceived(s, timeout, frame)

(***************************************************************************)
(* The second source variant (src/HighLevelAnalyzer.py, class Hla).  Its   *)
(* state constants have the values of TransferState, and its initPacket    *)
(* and header branch have the text of analyzer.py.                         *)
(***************************************************************************)
\* GraphTimeDelta(0.01) of Hla.onReceived: one tick is 0.01 s
HlaTimeout == 1

HexDigitsLower ==
    <<"0", "1", "2", "3", "4", "5", "6", "7",
      "8", "9", "a", "b", "c", "d", "e", "f">>

\* all hex digits of n in lower case, most significant first ('{:x}')
RECURSIVE FmtLowerX(_)
FmtLowerX(n) ==
    IF n < 16 THEN <<HexDigitsLower[n + 1]>>
    ELSE FmtLowerX(n \div 16) \o <<HexDigitsLower[(n % 16) + 1]>>

\* '{:02x}'.format(n)
Fmt02x(n) == ZeroPad(FmtLowerX(n), 2)

\* hex(n)
PyHex(n) == <<"0x">> \o FmtLowerX(n)

\* Hla.__init__
HlaConstructed == [currentState |-> WAIT_INIT]

\* Hla.initPacket
Hla_initPacket(s) == initPacket(s)

\* The WAIT_INIT branch of Hla.onReceived
Hla_onHeader(s, byte, frame) == onHeader(s, byte, frame)

\* The WAIT_DATA branch of Hla.onReceived
Hla_onPayload(s, byte) ==
    LET size == s.lastPacketDataSize - 1
    IN [s EXCEPT
          !.lastPacketData = @ \o <<"0x">> \o Fmt02x(byte) \o <<" ">>,
          !.lastPacketDataSize = size,
          !.currentState = IF size <= 0 THEN WAIT_CRC_1 ELSE @]

\* The lookups of the frame returned in the WAIT_CRC_2 branch
Hla_FrameRaises(s) ==
    \/ s.lastPacketType \notin DOMAIN FRAME_TYPE_MAP
    \/ BitAnd(s.lastPacketCommandType, REQ_TYPE_MASK)
          \notin DOMAIN COMMAND_TYPE_MAP

\* The frame returned in the WAIT_CRC_2 branch of Hla.onReceived
Hla_Frame(s, frame) ==
    AnalyzerFrame("frame", s.lastPacketTime, frame.end_time,
        [frame_type |-> FRAME_TYPE_MAP[s.lastPacketType],
         command_type |->
             COMMAND_TYPE_MAP[BitAnd(s.lastPacketCommandType, REQ_TYPE_MASK)],
         device_address |-> PyHex(s.lastPacketDeviceAddress),
         register_address |-> PyHex(s.lastPacketRegisterAddress),
         register_data |-> s.lastPacketData])

\* `for byte in data:` of Hla.onReceived: every branch returns, so only the
\* first byte is looked at; with no byte the method falls off its end
Hla_loop(s, frame) ==
    IF Len(frame.data) = 0 THEN Returned(s, <<>>)
    ELSE
    LET byte == frame.data[1] IN
    CASE s.currentState = WAIT_INIT ->
           Returned(Hla_onHeader(s, byte, frame), <<>>)
      [] s.currentState = WAIT_DEV_ADDR ->
           Returned([s EXCEPT !.lastPacketDeviceAddress = byte,
                              !.currentState = WAIT_REG_ADDR_1], <<>>)
      [] s.currentState = WAIT_REG_ADDR_1 ->
           Returned([s EXCEPT !.lastPacketRegisterAddress = ShiftLeft8(byte),
                              !.currentState = WAIT_REG_ADDR_2], <<>>)
      [] s.currentState = WAIT_REG_ADDR_2 ->
           Returned([s EXCEPT !.lastPacketRegisterAddress = BitOr(@, byte),
                              !.currentState = WAIT_DATA], <<>>)
      [] s.currentState = WAIT_DATA ->
           Returned(Hla_onPayload(s, byte), <<>>)
      [] s.currentState = WAIT_CRC_1 ->
           Returned([s EXCEPT !.lastPacketChecksum = ShiftLeft8(byte),
                              !.currentState = WAIT_CRC_2], <<>>)
      [] s.currentState = WAIT_CRC_2 ->
           LET t == [s EXCEPT !.lastPacketChecksum = BitOr(@, byte),
                              !.currentState = WAIT_INIT]
           IN IF Hla_FrameRaises(t) THEN Raised(t, "KeyError")
              ELSE Returned(t, <<Hla_Frame(t, frame)>>)

\* the timeout test of Hla with <= for <
Hla_TimedOut_nonStrict(s, timeout, frame) ==
    /\ s.currentState # WAIT_INIT
    /\ s.lastPacketTime + HlaTimeout <= frame.end_time

\* The timeout test of Hla.onReceived; the setting is not read
Hla_TimedOut(s, timeout, frame) ==
    /\ s.currentState # WAIT_INIT
    /\ s.lastPacketTime + HlaTimeout < frame.end_time

\* Hla.onReceived
Hla_onReceived(s, timeout, frame) ==
    IF ~frame.hasdata THEN Returned(s, <<>>)
    ELSE IF Hla_TimedOut(s, timeout, frame)
    THEN Returned([s EXCEPT !.currentState = WAIT_INIT],
                  <<AnalyzerFrame("error_frame", s.lastPacketTime,
                                  frame.end_time,
                                  [error_reason |-> "Transfer Timeout"])>>)
    ELSE Hla_loop(s, frame)

\* Hla.decode
Hla_decode(s, timeout, frame) ==
    IF frame.type # "data" THEN Returned(s, <<>>)
    ELSE IF frame.haserror THEN Returned(s, <<>>)
    ELSE Hla_onReceived(s, timeout, frame)

(***************************************************************************)
(* The capture host: the events it delivers and the state of one run.      *)
(***************************************************************************)
VARIABLES
    self,           \* the analyzer object
    frame_timeout,  \* the Frame Timeout setting, in ticks
    now,            \* end time of the last delivered event
    result,         \* what the last decode call returned (<<>> is None)
    raised,         \* the exception that left the last decode call
    call,           \* the last decode call: how far its event got, the
                    \* entry state, the number of bytes fed
    log,            \* bytes of the current frame while fed one per event
    hla             \* an Hla object run on the same events, with what its
                    \* last decode call handed back

vars == <<self, frame_timeout, now, result, raised, call, log, hla>>

\* bytes fed where a header is decoded: every command pattern and the
\* response pattern, with each payload length up to MaxPayload
HeaderBytes ==
    {COMMAND_FRAME + 16 * k + (n - 1) : k \in 0..7, n \in 1..MaxPayload}
    \cup {RESPONSE_FRAME + (n - 1) : n \in 1..MaxPayload}

\* bytes fed as device address, register address and payload
DataBytes == {5, 241}

\* bytes fed as checksum (the decoder stores the checksum and never reads it)
ChecksumBytes == {90}

\* bytes fed behind the byte that opens a frame or continues it, in an
\* event of several bytes
TrailingBytes == {165}

\* the byte values the host may put at position i of a data event
BytesAt(s, i) ==
    IF (i = 1 /\ s.currentState = WAIT_INIT)
       \/ (i = 2 /\ s.currentState = WAIT_CRC_2)
    THEN HeaderBytes
    ELSE IF i > 1 THEN TrailingBytes
    ELSE IF s.currentState \in {WAIT_CRC_1, WAIT_CRC_2} THEN ChecksumBytes
    ELSE DataBytes

Min(a, b) == IF a < b THEN a ELSE b

RECURSIVE ChunksFrom(_, _, _)
ChunksFrom(s, i, n) ==
    IF i > n THEN {<<>>}
    ELSE {<<b>> \o rest : b \in BytesAt(s, i), rest \in ChunksFrom(s, i + 1, n)}

\* the byte sequences of the data events
Chunks(s) == UNION {ChunksFrom(s, 1, n) : n \in 1..MaxChunk}

\* the event spans that may follow the last event
Spans ==
    LET last == Min(now + MaxAdvance, MaxTime)
    IN {<<st, en>> \in (now..last) \X (now..last) : st <= en}

Event(type, haserror, hasdata, data, span) ==
    [type |-> type, haserror |-> haserror, hasdata |-> hasdata,
     data |-> data, start_time |-> span[1], end_time |-> span[2]]

\* serial data events
DataEvents(s) == {Event("data", FALSE, TRUE, d, sp) : d \in Chunks(s), sp \in Spans}

\* events the decoder has to skip: another event type, a framing or parity
\* error, a data event without a 'data' entry
OtherEvents ==
    {Event("other", FALSE, FALSE, <<>>, sp) : sp \in Spans}
    \cup {Event("data", TRUE, TRUE, <<b>>, sp) : b \in TrailingBytes, sp \in Spans}
    \cup {Event("data", FALSE, FALSE, <<>>, sp) : sp \in Spans}

\* the event reaches the byte loop or the timeout test of onReceived
Fed(frame) == frame.type = "data" /\ ~frame.haserror /\ frame.hasdata

\* how far the event gets: skipped by decode, returned by onReceived for
\* want of a 'data' entry, or fed to the timeout test and the byte loop
Path(frame) ==
    IF frame.type # "data" \/ frame.haserror THEN "skipped"
    ELSE IF ~frame.hasdata THEN "nodata"
    ELSE "fed"

NoLog == [clean |-> FALSE, bytes |-> <<>>]

NextLog(s, timeout, frame) ==
    IF ~Fed(frame) THEN log
    ELSE IF TimedOut(s, timeout, frame) THEN NoLog
    ELSE IF s.currentState = WAIT_INIT
    THEN IF Len(frame.data) = 1
         THEN [clean |-> TRUE, bytes |-> frame.data]
         ELSE NoLog
    ELSE IF log.clean /\ Len(frame.data) = 1
    THEN [clean |-> TRUE, bytes |-> log.bytes \o frame.data]
    ELSE NoLog

Init ==
    /\ self = Constructed
    /\ frame_timeout \in 0..MaxTimeout
    /\ now = 0
    /\ result = <<>>
    /\ raised = "none"
    /\ call = [op |-> "none"]
    /\ log = NoLog
    /\ hla = Returned(HlaConstructed, <<>>)

\* the host delivers one event to analyzer.decode
Deliver(frame) ==
    \E out \in {decode(self, frame_timeout, frame)} :
       /\ self' = out.self
       /\ result' = out.result
       /\ raised' = out.raised
       /\ now' = frame.end_time
       /\ call' = [op |-> "decode", path |-> Path(frame),
                   entry |-> self.currentState,
                   n |-> IF Fed(frame) THEN Len(frame.data) ELSE 0]
       /\ log' = NextLog(self, frame_timeout, frame)
       /\ UNCHANGED frame_timeout

DeliverData ==
    /\ \E frame \in DataEvents(self) : Deliver(frame)
    /\ UNCHANGED hla

DeliverOther ==
    /\ \E frame \in OtherEvents : Deliver(frame)
    /\ UNCHANGED hla

Next == DeliverData \/ DeliverOther

Spec == Init /\ [][Next]_vars

(***************************************************************************)
(* Frames of every length: every byte value as header, one byte per event, *)
(* no time passing; the register, payload and checksum bytes are fixed.    *)
(***************************************************************************)
LongBytes(s) ==
    IF s.currentState = WAIT_INIT THEN 0..255
    ELSE IF s.currentState = WAIT_DEV_ADDR THEN DataBytes
    ELSE ChecksumBytes

DeliverByte ==
    /\ \E b \in LongBytes(self) :
          Deliver(Event("data", FALSE, TRUE, <<b>>, <<now, now>>))
    /\ UNCHANGED hla

NextLong == DeliverByte

SpecLong == Init /\ [][NextLong]_vars

(***************************************************************************)
(* The worked example of a single-device write: the bytes that follow the  *)
(* header, and the host that feeds header and bytes one per event to a     *)
(* decoder as constructed, for every value of the header.                  *)
(***************************************************************************)
ScenarioTail == <<5, 0, 42, 255, 0, 0>>

Scenario(h) == <<h>> \o ScenarioTail

DeliverScenario ==
    /\ \E h \in 0..255 :
         LET fedSoFar == IF self = Constructed THEN <<>> ELSE log.bytes
             k == Len(fedSoFar)
         IN /\ self = Constructed \/ log.clean
            /\ k < Len(Scenario(h))
            /\ fedSoFar = SubSeq(Scenario(h), 1, k)
            /\ Deliver(Event("data", FALSE, TRUE, <<Scenario(h)[k + 1]>>,
                             <<now, now>>))
    /\ UNCHANGED hla

NextScenario == DeliverScenario

SpecScenario == Init /\ [][NextScenario]_vars

\* the host goes on delivering events for as long as the capture has any;
\* nothing makes the next event one that carries data
SpecHost == Init /\ [][Next]_vars /\ WF_vars(Next)

(***************************************************************************)
(* Both variants side by side: an analyzer object and an Hla object, each  *)
(* as constructed, are given the same single-byte data events.  The run of *)
(* the pair goes as far as the first call that leaves the two in different *)
(* states of the frame.                                                    *)
(***************************************************************************)
InStep == hla.self.currentState = self.currentState

PairEvents ==
    {Event("data", FALSE, TRUE, <<b>>, sp) : b \in BytesAt(self, 1), sp \in Spans}

DeliverBoth ==
    /\ InStep
    /\ \E frame \in PairEvents :
          /\ Deliver(frame)
          /\ hla' = Hla_decode(hla.self, frame_timeout, frame)

NextPair == DeliverBoth

SpecPair == Init /\ [][NextPair]_vars

TypeOK ==
    /\ self.currentState \in WAIT_INIT..WAIT_CRC_2
    /\ Len(result) <= 1
    /\ raised \in {"none", "KeyError"}

(***************************************************************************)
(* Vocabulary of the properties.                                           *)
(***************************************************************************)
\* the last call fed a data event to onReceived
LastFed == call.op = "decode" /\ call.path = "fed"

\* the frame in progress was fed one byte per event, without a timeout
Clean == log.clean /\ Len(log.bytes) >= 1

\* header fields, read off the byte arithmetically
IsCommand(h) == h >= 128
CommandBits(h) == ((h \div 16) % 8) * 16
IsSingleDevice(h) == IsCommand(h) /\ CommandBits(h) \in {0, 16}
IsStackOrBroadcast(h) == IsCommand(h) /\ CommandBits(h) \in {32, 48, 64, 80, 96}
IsUnknownCommand(h) == IsCommand(h) /\ CommandBits(h) = 112
DeclaredLength(h) == IF IsCommand(h) THEN (h % 8) + 1 ELSE (h % 128) + 1

\* bytes of a complete frame that opens with header h
FrameLength(h) ==
    1 + (IF IsSingleDevice(h) \/ ~IsCommand(h) THEN 1 ELSE 0) + 2
      + DeclaredLength(h) + 2

\* a single-byte data event at the current time
ByteNow(b) == Event("data", FALSE, TRUE, <<b>>, <<now, now>>)

\* the rendering of payload bytes, in order
RECURSIVE PayloadText(_)
PayloadText(bs) ==
    IF bs = <<>> THEN <<>>
    ELSE <<"0x">> \o Fmt02X(Head(bs)) \o <<" ">> \o PayloadText(Tail(bs))

\* the message of a frame with a device address
DeviceFrameText(prefix, dev, hi, lo, payload) ==
    prefix \o <<"Device: 0x">> \o Fmt04X(dev) \o <<" ", "Register: 0x">>
           \o Fmt04X(hi * 256 + lo) \o <<" Data: ">> \o PayloadText(payload)

(***************************************************************************)
(* C1: a Single Device Read/Write frame fed one byte per event without a   *)
(* timeout returns nothing for its first N+5 bytes and, on byte N+6, one   *)
(* 'frame' result with category Command, the command label, the device     *)
(* address, the register address (high << 8) | low and the N payload bytes *)
(* in arrival order.                                                       *)
(***************************************************************************)
C1_SingleDeviceFrame ==
    (LastFed /\ Clean /\ IsSingleDevice(log.bytes[1])) =>
        LET h == log.bytes[1]
            N == (h % 8) + 1
            k == Len(log.bytes)
            label == IF CommandBits(h) = 0 THEN "Single Device Read"
                     ELSE "Single Device Write"
        IN /\ k <= N + 6
           /\ raised = "none"
           /\ k < N + 6 => result = <<>>
           /\ k = N + 6 =>
                /\ Len(result) = 1
                /\ result[1].type = "frame"
                /\ result[1].data.message =
                      DeviceFrameText(<<"Command", " - ", label, " ">>,
                                      log.bytes[2], log.bytes[3], log.bytes[4],
                                      SubSeq(log.bytes, 5, 4 + N))

\* a two-byte Single Device frame with different payload bytes has completed
C1_Witness ==
    /\ LastFed /\ Clean /\ IsSingleDevice(log.bytes[1])
    /\ Len(log.bytes) = 8
    /\ log.bytes[3] # log.bytes[4]
    /\ log.bytes[5] # log.bytes[6]
    /\ Len(result) = 1

(***************************************************************************)
(* C2: a Stack Read/Write or Broadcast Read/Write/Write Reverse header     *)
(* never leads to WAIT_DEV_ADDR: the state after the header is             *)
(* WAIT_REG_ADDR_1 and the byte that follows the header is stored as the   *)
(* high byte of the register address.                                      *)
(***************************************************************************)
C2_NoDeviceAddress ==
    \* whatever header of these commands arrives next
    /\ self.currentState = WAIT_INIT =>
         \A h \in 128..255 :
            IsStackOrBroadcast(h) =>
               onReceived(self, frame_timeout, ByteNow(h)).self.currentState
                  = WAIT_REG_ADDR_1
    \* WAIT_DEV_ADDR is entered for no such packet
    /\ self.currentState = WAIT_DEV_ADDR =>
         ~(/\ self.lastPacketType = COMMAND_FRAME
           /\ self.lastPacketCommandType \in {32, 48, 64, 80, 96})
    \* the frames fed one byte per event
    /\ (Clean /\ IsStackOrBroadcast(log.bytes[1])) =>
         /\ self.currentState # WAIT_DEV_ADDR
         /\ self.lastPacketDeviceAddress = 0
         /\ Len(log.bytes) = 1 => self.currentState = WAIT_REG_ADDR_1
         /\ Len(log.bytes) = 2 =>
              /\ self.currentState = WAIT_REG_ADDR_2
              /\ self.lastPacketRegisterAddress = log.bytes[2] * 256

\* the byte after a Broadcast Write Reverse header has been stored
C2_Witness ==
    /\ LastFed /\ Clean
    /\ CommandBits(log.bytes[1]) = 96 /\ IsCommand(log.bytes[1])
    /\ Len(log.bytes) = 2
    /\ self.lastPacketRegisterAddress = 241 * 256

(***************************************************************************)
(* C3: a header with bit 7 clear declares (header & 0x7f) + 1 payload      *)
(* bytes (1..128) and leads to WAIT_DEV_ADDR; the next byte is the device  *)
(* address, and without a timeout the frame completes after exactly        *)
(* 1 + 1 + 2 + ((header & 0x7f) + 1) + 2 bytes.                            *)
(***************************************************************************)
C3_ResponseFrame ==
    \* whatever response header arrives next
    /\ self.currentState = WAIT_INIT =>
         \A h \in 0..127 :
            \A after \in {onReceived(self, frame_timeout, ByteNow(h)).self} :
               /\ after.currentState = WAIT_DEV_ADDR
               /\ after.lastPacketDataSize = (h % 128) + 1
               /\ after.lastPacketDataSize \in 1..128
    \* the frames fed one byte per event
    /\ (LastFed /\ Clean /\ ~IsCommand(log.bytes[1])) =>
         LET h == log.bytes[1]
             k == Len(log.bytes)
             total == 1 + 1 + 2 + ((h % 128) + 1) + 2
         IN /\ k <= total
            /\ k >= 2 => self.lastPacketDeviceAddress = log.bytes[2]
            /\ k < total => self.currentState # WAIT_INIT /\ result = <<>>
            /\ k = total =>
                 /\ self.currentState = WAIT_INIT
                 /\ Len(result) = 1 /\ result[1].type = "frame"

\* a response frame with 128 payload bytes has completed
C3_Witness ==
    /\ LastFed /\ Clean /\ log.bytes[1] = 127
    /\ Len(log.bytes) = 134
    /\ self.lastPacketDeviceAddress = 241
    /\ Len(result) = 1 /\ result[1].type = "frame"

(***************************************************************************)
(* C4: onReceived returns a 'Transfer Timeout' error exactly when, at      *)
(* entry, the state is not WAIT_INIT and lastPacketTime + timeout <        *)
(* end_time (strict).  Then it returns that one error, the state becomes   *)
(* WAIT_INIT, no byte of the event is interpreted, and the first byte of   *)
(* the next event is decoded as a header.  In WAIT_INIT at entry no        *)
(* timeout error is returned whatever the idle gap.                        *)
(***************************************************************************)
TimeoutError(start, end) ==
    AnalyzerFrame("error_frame", start, end,
                  [error_reason |-> "Transfer Timeout"])

IsTimeoutError(res) ==
    \E i \in 1..Len(res) :
        res[i].type = "error_frame" /\ res[i].data.error_reason = "Transfer Timeout"

C4_TimeoutExactly ==
    \* whatever data event arrives next
    /\ \A f \in DataEvents(self) :
         \A out \in {onReceived(self, frame_timeout, f)} :
         LET due == /\ self.currentState # WAIT_INIT
                    /\ self.lastPacketTime + frame_timeout < f.end_time
         IN /\ IsTimeoutError(out.result) <=> due
            /\ due =>
                 /\ out.result = <<TimeoutError(self.lastPacketTime, f.end_time)>>
                 /\ out.raised = "none"
                 /\ out.self = [self EXCEPT !.currentState = WAIT_INIT]
    \* after a timeout error the next byte is a header
    /\ (LastFed /\ IsTimeoutError(result)) =>
         /\ self.currentState = WAIT_INIT
         /\ \A h \in HeaderBytes :
              \A after \in {onReceived(self, frame_timeout, ByteNow(h)).self} :
                 /\ after.currentState \in {WAIT_DEV_ADDR, WAIT_REG_ADDR_1}
                 /\ after.lastPacketTime = now
                 /\ after.lastPacketDataSize = DeclaredLength(h)
                 /\ after.lastPacketData = <<>>

\* a transfer with a stored payload byte has timed out on a two-byte event
C4_Witness ==
    /\ LastFed /\ IsTimeoutError(result)
    /\ call.entry = WAIT_DATA /\ call.n = 2
    /\ self.lastPacketDataSize = 1 /\ Len(self.lastPacketData) = 4
    /\ frame_timeout = 1

(***************************************************************************)
(* C5, as stated: after any call that returns a completed frame or an      *)
(* error, the decoder's state (current state, packet fields, last-header   *)
(* timestamp) is identical to its state immediately after construction.    *)
(***************************************************************************)
C5_StateAsConstructed ==
    (LastFed /\ Len(result) = 1) => self = Constructed

(***************************************************************************)
(* C5, amended: after any call that returns a completed frame or an error, *)
(* currentState is WAIT_INIT as after construction; the packet attributes  *)
(* keep the values of the finished or abandoned packet, and the next       *)
(* header byte resets all of them, so that the state and the results from  *)
(* the next event on are those of a freshly constructed decoder.           *)
(***************************************************************************)
C5_Resync ==
    (LastFed /\ Len(result) = 1) =>
        /\ self.currentState = Constructed.currentState
        /\ \A f \in DataEvents(self) :
              decode(self, frame_timeout, f)
                 = decode(Constructed, frame_timeout, f)

\* a Single Device frame has completed and left its fields behind
C5_Witness ==
    /\ LastFed /\ Len(result) = 1 /\ result[1].type = "frame"
    /\ self.currentState = WAIT_INIT
    /\ self.lastPacketDeviceAddress = 241
    /\ self.lastPacketData # <<>>

(***************************************************************************)
(* C6: when a data event carries more than one byte and no timeout fires,  *)
(* every byte advances the state machine in order within that call: the    *)
(* state after the call is the state reached by feeding the same bytes one *)
(* per call, and no trailing byte is dropped.                              *)
(***************************************************************************)
\* the bytes of the event from position i on, each through its own pass of
\* the byte loop
RECURSIVE FeedEach(_, _, _)
FeedEach(s, frame, i) ==
    IF i > Len(frame.data) THEN s
    ELSE FeedEach(loop(s, [frame EXCEPT !.data = <<frame.data[i]>>], 1, <<>>).self,
                  frame, i + 1)

C6_EveryByteAdvances ==
    [][\A f \in DataEvents(self) :
          (Deliver(f) /\ Len(f.data) > 1 /\ ~TimedOut(self, frame_timeout, f))
             => self' = FeedEach(self, f, 1)]_vars

(***************************************************************************)
(* C7: a command header whose command bits are 0x70 makes the decoder      *)
(* abandon the packet, return an 'Unknown Command Type' error and be in    *)
(* WAIT_INIT immediately afterwards.                                       *)
(***************************************************************************)
C7_UnknownCommandError ==
    (LastFed /\ Clean /\ Len(log.bytes) = 1 /\ IsUnknownCommand(log.bytes[1])) =>
        /\ self.currentState = WAIT_INIT
        /\ Len(result) = 1
        /\ result[1].type \in {"error", "error_frame"}
        /\ result[1].data.error_reason = "Unknown Command Type"

(***************************************************************************)
(* C8: no sequence of events is fatal: every call returns normally with a  *)
(* frame, an error or nothing (never a failed label lookup), and every     *)
(* error leaves the decoder in WAIT_INIT.                                  *)
(***************************************************************************)
C8_NeverFatal ==
    /\ raised = "none"
    /\ (Len(result) = 1 /\ result[1].type = "error_frame") =>
          self.currentState = WAIT_INIT

(***************************************************************************)
(* C9: every call returns zero or one result, and none unless it consumes  *)
(* the second checksum byte of a frame or triggers the timeout: a call     *)
(* that consumes a header, device-address, register-address, payload or    *)
(* first-checksum byte returns nothing.                                    *)
(***************************************************************************)
C9_ResultOnlyAtEnd ==
    \* the last call
    /\ Len(result) <= 1
    /\ call.op = "decode" /\ call.path # "fed" => result = <<>>
    /\ (LastFed /\ result # <<>>) =>
          \/ result[1].type = "frame" /\ call.entry = WAIT_CRC_2
          \/ IsTimeoutError(result) /\ call.entry # WAIT_INIT
    \* whatever data event arrives next
    /\ \A f \in DataEvents(self) :
          \A out \in {onReceived(self, frame_timeout, f)} :
             /\ Len(out.result) <= 1
             /\ (self.currentState # WAIT_CRC_2
                 /\ ~(/\ self.currentState # WAIT_INIT
                      /\ self.lastPacketTime + frame_timeout < f.end_time))
                  => out.result = <<>> /\ out.raised = "none"

\* a call that consumed the first checksum byte has returned nothing
C9_Witness ==
    /\ LastFed /\ call.entry = WAIT_CRC_1
    /\ self.currentState = WAIT_CRC_2
    /\ self.lastPacketChecksum = 90 * 256
    /\ result = <<>>

(***************************************************************************)
(* C10: decode of an event whose type is not 'data', or whose data has an  *)
(* 'error' entry, returns nothing and leaves the decoder unchanged, also   *)
(* when a transfer is in progress and the event ends past the timeout.     *)
(***************************************************************************)
C10_SkippedEvents ==
    \* the last call
    /\ (call.op = "decode" /\ call.path = "skipped") =>
          result = <<>> /\ raised = "none"
    \* whatever such event arrives next
    /\ \A f \in OtherEvents :
          (f.type # "data" \/ f.haserror) =>
             decode(self, frame_timeout, f) = Returned(self, <<>>)

\* an event was skipped in mid-transfer, ending past the timeout
C10_Witness ==
    /\ call.op = "decode" /\ call.path = "skipped"
    /\ self.currentState = WAIT_REG_ADDR_2
    /\ self.lastPacketTime + frame_timeout < now
    /\ result = <<>>

(***************************************************************************)
(* C11, as stated: the bytes 0x10, 0x05, 0x00, 0x2A, 0xFF, 0x00, 0x00 fed  *)
(* one per event to a fresh decoder give one 'frame' result on the seventh *)
(* byte: Command, 'Single Device Write', device 0x05, register 0x002A,     *)
(* payload [0xFF], with the decoder back in WAIT_INIT.                     *)
(***************************************************************************)
WriteFrameText ==
    DeviceFrameText(<<"Command", " - ", "Single Device Write", " ">>,
                    5, 0, 42, <<255>>)

C11_Header10 ==
    (LastFed /\ Clean /\ log.bytes = Scenario(16)) =>
        /\ Len(result) = 1
        /\ result[1].type = "frame"
        /\ result[1].data.message = WriteFrameText
        /\ self.currentState = WAIT_INIT

(***************************************************************************)
(* C11, amended: with the header 0x90 (bit 7 set, command bits 001, size   *)
(* bits 000) in place of 0x10 the seven bytes give nothing for the first   *)
(* six and that one 'frame' result on the seventh; the header 0x10 itself  *)
(* is a response header declaring 17 payload bytes, so that after its      *)
(* seven bytes the decoder is in WAIT_DATA with three payload bytes stored *)
(* and nothing returned.                                                   *)
(***************************************************************************)
C11_Header90 ==
    /\ (LastFed /\ Clean /\ \E k \in 1..6 :
                               log.bytes = SubSeq(Scenario(144), 1, k)) =>
          /\ result = <<>>
          /\ raised = "none"
          /\ self.currentState # WAIT_INIT
    /\ (LastFed /\ Clean /\ log.bytes = Scenario(144)) =>
          /\ result = <<AnalyzerFrame("frame", now, now,
                                      [message |-> WriteFrameText])>>
          /\ raised = "none"
          /\ self.currentState = WAIT_INIT
          /\ self.lastPacketDeviceAddress = 5
          /\ self.lastPacketRegisterAddress = 42
    /\ (LastFed /\ Clean /\ log.bytes = Scenario(16)) =>
          /\ result = <<>>
          /\ self.currentState = WAIT_DATA
          /\ self.lastPacketType = RESPONSE_FRAME
          /\ self.lastPacketDataSize = 17 - 3
          /\ self.lastPacketData = PayloadText(<<255, 0, 0>>)

\* the seventh byte of the write frame has been fed
C11_Witness ==
    /\ LastFed /\ Clean /\ log.bytes = Scenario(144)
    /\ Len(result) = 1

(***************************************************************************)
(* C12, as stated: a transfer in progress whose idle time has exceeded the *)
(* timeout is eventually abandoned: the decoder returns to WAIT_INIT.      *)
(***************************************************************************)
Stalled ==
    /\ self.currentState # WAIT_INIT
    /\ self.lastPacketTime + frame_timeout < now

C12_EventuallyAbandoned == Stalled ~> (self.currentState = WAIT_INIT)

(***************************************************************************)
(* C12, amended: the timeout is looked at only when a data event is fed to *)
(* onReceived.  A stalled transfer is abandoned by the next such event,    *)
(* which returns the timeout error and leaves WAIT_INIT; every other event *)
(* leaves the decoder, stalled transfer included, exactly as it was.       *)
(***************************************************************************)
C12_AbandonedByNextData ==
    [][Stalled =>
         IF call'.path = "fed"
         THEN /\ self' = [self EXCEPT !.currentState = WAIT_INIT]
              /\ result' = <<TimeoutError(self.lastPacketTime, now')>>
              /\ raised' = "none"
         ELSE self' = self /\ result' = <<>>]_vars

\* a transfer that waited for its last byte has been abandoned two ticks
\* after its header, the timeout being 0
C12_Witness ==
    /\ LastFed
    /\ frame_timeout = 0
    /\ call.entry = WAIT_CRC_2
    /\ result = <<TimeoutError(0, 2)>>
    /\ self.currentState = WAIT_INIT

(***************************************************************************)
(* C13: in both variants the bound of the timeout test is the configured   *)
(* frame_timeout: whatever data event arrives next, the call returns the   *)
(* timeout error exactly when a frame is in progress and the event ends    *)
(* later than lastPacketTime + frame_timeout.                              *)
(***************************************************************************)
C13_ConfiguredTimeout ==
    \A f \in PairEvents :
        /\ IsTimeoutError(onReceived(self, frame_timeout, f).result)
             <=> /\ self.currentState # WAIT_INIT
                 /\ self.lastPacketTime + frame_timeout < f.end_time
        /\ IsTimeoutError(Hla_onReceived(hla.self, frame_timeout, f).result)
             <=> /\ hla.self.currentState # WAIT_INIT
                 /\ hla.self.lastPacketTime + frame_timeout < f.end_time

(***************************************************************************)
(* C14: while a frame is decoded, lastPacketDataSize counts the payload    *)
(* bytes still to come: in WAIT_DATA it lies between 1 and the length the  *)
(* header declared; a payload byte takes exactly one off it and appends    *)
(* exactly one element to lastPacketData; the elements stored plus the     *)
(* count remaining are the declared length throughout; the decoder leaves  *)
(* WAIT_DATA, for WAIT_CRC_1, exactly when the count reaches zero, and the *)
(* count is never negative.                                                *)
(***************************************************************************)
Stored == Len(self.lastPacketData) \div 4

C14_PayloadCounter ==
    (LastFed /\ Clean) =>
       LET declared == DeclaredLength(log.bytes[1]) IN
       /\ Len(self.lastPacketData) % 4 = 0
       /\ self.lastPacketDataSize >= 0
       /\ Stored + self.lastPacketDataSize = declared
       /\ self.currentState = WAIT_DATA =>
            /\ self.lastPacketDataSize \in 1..declared
            /\ \A b \in 0..255 :
                 \A after \in {onReceived(self, frame_timeout, ByteNow(b)).self} :
                    /\ after.lastPacketDataSize = self.lastPacketDataSize - 1
                    /\ after.lastPacketData =
                         self.lastPacketData \o PayloadText(<<b>>)
                    /\ after.currentState =
                         IF after.lastPacketDataSize = 0
                         THEN WAIT_CRC_1 ELSE WAIT_DATA
       /\ self.currentState \in {WAIT_DEV_ADDR, WAIT_REG_ADDR_1, WAIT_REG_ADDR_2}
            => Stored = 0
       /\ self.currentState \in {WAIT_CRC_1, WAIT_CRC_2, WAIT_INIT}
            => self.lastPacketDataSize = 0

\* the last of 128 payload bytes is still to come
C14_Witness ==
    /\ LastFed /\ Clean
    /\ self.currentState = WAIT_DATA
    /\ DeclaredLength(log.bytes[1]) = 128
    /\ self.lastPacketDataSize = 1
    /\ Stored = 127

(***************************************************************************)
(* C15: the header's event gives lastPacketTime its start time, and no     *)
(* later byte of the frame changes it; the 'frame' result spans from there *)
(* to the end of the event with the second checksum byte, and the timeout  *)
(* error from there to the end of the event that triggered it.             *)
(***************************************************************************)
C15_ResultSpans ==
    \* the last call
    /\ (LastFed /\ Len(result) = 1) =>
          /\ result[1].start_time = self.lastPacketTime
          /\ result[1].end_time = now
    \* whatever data event arrives next
    /\ \A f \in DataEvents(self) :
          \A out \in {onReceived(self, frame_timeout, f)} :
             IF self.currentState = WAIT_INIT
             THEN out.self.lastPacketTime = f.start_time
             ELSE /\ Len(out.result) = 1 =>
                       /\ out.result[1].start_time = self.lastPacketTime
                       /\ out.result[1].end_time = f.end_time
                  \* a header that follows the second checksum byte in the
                  \* same event opens the next frame
                  /\ out.self.lastPacketTime =
                       IF out.self.currentState # WAIT_INIT
                          /\ self.currentState = WAIT_CRC_2
                       THEN f.start_time
                       ELSE self.lastPacketTime

\* a frame whose header's event started at 0 has completed at 1
C15_Witness ==
    /\ LastFed /\ call.entry = WAIT_CRC_2
    /\ Len(result) = 1 /\ result[1].type = "frame"
    /\ result[1].start_time = 0 /\ result[1].end_time = 1
    /\ self.lastPacketTime = 0

(***************************************************************************)
(* C16: a call that takes the decoder out of WAIT_CRC_2 by consuming the   *)
(* second checksum byte returns the 'frame' result, also when the event    *)
(* holds further bytes after that byte.  (Stated for the frames whose      *)
(* labels exist, i.e. apart from the command without a label.)             *)
(***************************************************************************)
C16_FrameNeverLost ==
    [][\A f \in DataEvents(self) :
          (/\ self.currentState = WAIT_CRC_2
           /\ ~TimedOut(self, frame_timeout, f)
           /\ ~(/\ self.lastPacketType = COMMAND_FRAME
                /\ self.lastPacketCommandType = REQ_TYPE_MASK)
           /\ Deliver(f))
          => /\ Len(result') = 1
             /\ result'[1].type = "frame"]_vars

(***************************************************************************)
(* C17: fed one byte per event without a timeout, the decoder goes through *)
(* the states of a frame in their fixed order and is back in WAIT_INIT,    *)
(* having returned the 'frame' result, after at most 133 bytes beyond the  *)
(* header.                                                                 *)
(***************************************************************************)
StateAfter(h, k) ==
    LET d == IF IsSingleDevice(h) \/ ~IsCommand(h) THEN 1 ELSE 0
        n == DeclaredLength(h)
    IN IF k <= d THEN WAIT_DEV_ADDR
       ELSE IF k = d + 1 THEN WAIT_REG_ADDR_1
       ELSE IF k = d + 2 THEN WAIT_REG_ADDR_2
       ELSE IF k <= d + 2 + n THEN WAIT_DATA
       ELSE IF k = d + 3 + n THEN WAIT_CRC_1
       ELSE IF k = d + 4 + n THEN WAIT_CRC_2
       ELSE WAIT_INIT

C17_BackWithin133 ==
    (LastFed /\ Clean) =>
       LET h == log.bytes[1]
           k == Len(log.bytes)
       IN /\ k - 1 <= 133
          /\ k <= FrameLength(h)
          /\ self.currentState = StateAfter(h, k)
          /\ k = FrameLength(h) =>
               /\ self.currentState = WAIT_INIT
               /\ Len(result) = 1
               /\ result[1].type = "frame"

(***************************************************************************)
(* C18: a 'frame' result carries a command type label exactly when the     *)
(* frame's category is Command, and a device address exactly when the      *)
(* frame had a device-address byte (single-device commands and responses), *)
(* in the result of analyzer.formatResult and in the result of             *)
(* Hla.onReceived alike.                                                   *)
(***************************************************************************)
CommandLabels == {COMMAND_TYPE_MAP[c] : c \in DOMAIN COMMAND_TYPE_MAP}

HasDeviceByte(s) ==
    \/ s.lastPacketType = RESPONSE_FRAME
    \/ /\ s.lastPacketType = COMMAND_FRAME
       /\ s.lastPacketCommandType \in {SINGLE_DEVICE_READ, SINGLE_DEVICE_WRITE}

C18_LabelAndDevice ==
    /\ (Len(result) = 1 /\ result[1].type = "frame") =>
         LET message == result[1].data.message IN
         /\ (\E i \in 1..Len(message) : message[i] \in CommandLabels)
              <=> self.lastPacketType = COMMAND_FRAME
         /\ (\E i \in 1..Len(message) : message[i] = "Device: 0x")
              <=> HasDeviceByte(self)
    /\ (Len(hla.result) = 1 /\ hla.result[1].type = "frame") =>
         /\ "command_type" \in DOMAIN hla.result[1].data
              <=> hla.self.lastPacketType = COMMAND_FRAME
         /\ "device_address" \in DOMAIN hla.result[1].data
              <=> HasDeviceByte(hla.self)

(***************************************************************************)
(* C19: the timeout runs from the start T of the header's event, not from  *)
(* the previous byte.  A 'frame' result is returned only by an event that  *)
(* ends no later than T + frame_timeout, as did every event of the frame   *)
(* before it; an event of a frame in progress that ends later returns no   *)
(* frame and abandons the transfer.  With frame_timeout = 0 a 'frame'      *)
(* result ends at the instant its header's event started, so none is       *)
(* returned when the timestamps increase strictly.                         *)
(***************************************************************************)
C19_MeasuredFromHeader ==
    \* the last call
    /\ (LastFed /\ Len(result) = 1 /\ result[1].type = "frame") =>
          /\ result[1].start_time = self.lastPacketTime
          /\ result[1].end_time = now
          /\ now <= self.lastPacketTime + frame_timeout
          /\ frame_timeout = 0 => result[1].end_time = result[1].start_time
    /\ (LastFed /\ call.entry # WAIT_INIT /\ self.currentState # WAIT_INIT) =>
          now <= self.lastPacketTime + frame_timeout
    \* whatever data event arrives next
    /\ \A f \in DataEvents(self) :
          (/\ self.currentState # WAIT_INIT
           /\ f.end_time > self.lastPacketTime + frame_timeout) =>
             \A out \in {onReceived(self, frame_timeout, f)} :
                /\ out.self.currentState = WAIT_INIT
                /\ \A i \in 1..Len(out.result) : out.result[i].type # "frame"

\* the second checksum byte came two ticks after the header's event began,
\* the timeout being one tick: the transfer was abandoned
C19_Witness ==
    /\ LastFed /\ call.entry = WAIT_CRC_2
    /\ frame_timeout = 1
    /\ result = <<TimeoutError(0, 2)>>
    /\ self.lastPacketDataSize = 0

(***************************************************************************)
(* C20: with the timeout configured as 0.01 s, an Hla object and an        *)
(* analyzer object given the same single-byte events from construction are *)
(* in corresponding states after every call, and the two calls hand back   *)
(* the same kind of result (nothing, a frame, the timeout error, or the    *)
(* failed lookup of the command without a label) with the same start and   *)
(* end times, register address and payload bytes.                          *)
(***************************************************************************)
HexDigitValue(c) ==
    CHOOSE v \in 0..15 : HexDigits[v + 1] = c \/ HexDigitsLower[v + 1] = c

RECURSIVE HexValue(_)
HexValue(ds) ==
    IF ds = <<>> THEN 0
    ELSE HexValue(SubSeq(ds, 1, Len(ds) - 1)) * 16 + HexDigitValue(ds[Len(ds)])

\* the bytes of a rendered payload, each rendered as "0x", two digits, " "
PayloadBytes(text) ==
    [i \in 1..(Len(text) \div 4) |->
        HexValue(<<text[4 * i - 2], text[4 * i - 1]>>)]

PositionOf(text, piece) == CHOOSE i \in 1..Len(text) : text[i] = piece

\* register address and payload bytes of the message of analyzer
MessageRegister(message) ==
    HexValue(SubSeq(message, PositionOf(message, "Register: 0x") + 1,
                    PositionOf(message, " Data: ") - 1))

MessagePayload(message) ==
    PayloadBytes(SubSeq(message, PositionOf(message, " Data: ") + 1,
                        Len(message)))

\* the packet attributes of the two objects correspond
Corresponding(a, h) ==
    /\ h.currentState = a.currentState
    /\ DOMAIN h = DOMAIN a
    /\ "lastPacketTime" \in DOMAIN a =>
         /\ h.lastPacketType = a.lastPacketType
         /\ h.lastPacketTime = a.lastPacketTime
         /\ h.lastPacketChecksum = a.lastPacketChecksum
         /\ h.lastPacketDataSize = a.lastPacketDataSize
         /\ h.lastPacketCommandType = a.lastPacketCommandType
         /\ h.lastPacketDeviceAddress = a.lastPacketDeviceAddress
         /\ h.lastPacketRegisterAddress = a.lastPacketRegisterAddress
         /\ PayloadBytes(h.lastPacketData) = PayloadBytes(a.lastPacketData)

C20_VariantsAgree ==
    frame_timeout = HlaTimeout =>
       /\ Corresponding(self, hla.self)
       /\ hla.raised = raised
       /\ Len(hla.result) = Len(result)
       /\ Len(result) = 1 =>
            /\ hla.result[1].type = result[1].type
            /\ hla.result[1].start_time = result[1].start_time
            /\ hla.result[1].end_time = result[1].end_time
            /\ result[1].type = "error_frame" =>
                 hla.result[1].data = result[1].data
            /\ result[1].type = "frame" =>
                 /\ HexValue(Tail(hla.result[1].data.register_address))
                      = MessageRegister(result[1].data.message)
                 /\ PayloadBytes(hla.result[1].data.register_data)
                      = MessagePayload(result[1].data.message)
                 /\ MessagePayload(result[1].data.message)
                      = PayloadBytes(self.lastPacketData)
                 /\ MessageRegister(result[1].data.message)
                      = self.lastPacketRegisterAddress

\* both have returned a frame with the payload bytes 0xF1, 0x05 and the
\* register address 0xF105
C20_Witness ==
    /\ frame_timeout = HlaTimeout
    /\ Len(result) = 1 /\ result[1].type = "frame"
    /\ Len(hla.result) = 1 /\ hla.result[1].type = "frame"
    /\ hla.result[1].data.register_data = <<"0x", "f", "1", " ", "0x", "0", "5", " ">>
    /\ MessagePayload(result[1].data.message) = <<241, 5>>
    /\ hla.result[1].data.register_address = <<"0x", "f", "1", "0", "5">>
    /\ result[1].end_time > result[1].start_time

====
